---- MODULE Spec2Model ----
(***************************************************************************)
(* Model of the vueformulate.com documentation site:                       *)
(*   - docs/.vuepress/config.js: the configuration function exported to    *)
(*     the VuePress host (sidebar tree, plugin list, seo callbacks);       *)
(*   - the example autocomplete component of the "Custom input types"      *)
(*     guide page (MyFormulateAutocomplete.vue).                           *)
(***************************************************************************)
EXTENDS Integers, Sequences, FiniteSets

VARIABLES
    ctx,            \* argument the host passes to module.exports
    config,         \* object returned by module.exports(ctx), or NotLoaded
    page,           \* $page handed to the seo callbacks
    site,           \* $site handed to the seo callbacks
    path,           \* path handed to the seo callbacks
    meta,           \* results of the seo callbacks for (page, site, path)
    model,          \* autocomplete: context.model
    selectedIndex,  \* autocomplete: data().selectedIndex
    lastOp          \* autocomplete: the handler that ran last

vars == <<ctx, config, page, site, path, meta, model, selectedIndex, lastOp>>
siteVars == <<ctx, config, page, site, path, meta>>
autoVars == <<model, selectedIndex, lastOp>>

(***************************************************************************)
(* JavaScript values.  Every value is a record with the same fields so     *)
(* that any two values can be compared: t is the type tag, s the string    *)
(* payload, n the numeric payload (a Date's time value), a the elements of *)
(* an array.  A callback that throws is modelled by the value TypeError.   *)
(***************************************************************************)
Undefined == [t |-> "undefined", s |-> "", n |-> 0, a |-> <<>>]
Null == [t |-> "null", s |-> "", n |-> 0, a |-> <<>>]
TypeError == [t |-> "TypeError", s |-> "", n |-> 0, a |-> <<>>]
InvalidDate == [t |-> "Date", s |-> "Invalid Date", n |-> 0, a |-> <<>>]
Str(x) == [t |-> "string", s |-> x, n |-> 0, a |-> <<>>]
Num(k) == [t |-> "number", s |-> "", n |-> k, a |-> <<>>]
DateOf(k) == [t |-> "Date", s |-> "", n |-> k, a |-> <<>>]
Arr(items) == [t |-> "array", s |-> "", n |-> 0, a |-> items]

\* ToBoolean: undefined, null, '' and 0 are falsy, everything else truthy.
Truthy(v) ==
    CASE v.t = "undefined" -> FALSE
      [] v.t = "null" -> FALSE
      [] v.t = "string" -> v.s # ""
      [] v.t = "number" -> v.n # 0
      [] OTHER -> TRUE

\* a || b
Or(a, b) == IF Truthy(a) THEN a ELSE b

\* a && b
And(a, b) == IF Truthy(a) THEN b ELSE a

\* ToString, as used by template literals and by + with a string operand.
JsToString(v) ==
    CASE v.t = "undefined" -> "undefined"
      [] v.t = "null" -> "null"
      [] OTHER -> v.s

\* Date.parse on a string: the time value in ms, or -1 for NaN.
DateParse(str) ==
    CASE str = "1970-01-01" -> 0
      [] str = "1970-01-02" -> 86400000
      [] OTHER -> -1

\* new Date(v) for a string or a number.
NewDate(v) ==
    CASE v.t = "number" -> DateOf(v.n)
      [] v.t = "string" -> IF DateParse(v.s) < 0 THEN InvalidDate ELSE DateOf(DateParse(v.s))
      [] v.t = "Date" -> v
      [] OTHER -> InvalidDate

(***************************************************************************)
(* config.js, lines 1-2: the module constants (the source's em dash is     *)
(* written as an ASCII hyphen here and in the seo title).                  *)
(***************************************************************************)
description == "The easiest way to build forms with Vue. Built-in validation, error handling, repeatable fields, form generation & more - make complex form creation a breeze."
title == "Vue Formulate"

(***************************************************************************)
(* config.js, lines 13-113: themeConfig.sidebar.  A node is a record whose *)
(* domain is the set of attributes the literal sets; a bare path string    *)
(* is the record [str |-> path].                                           *)
(***************************************************************************)
Leaf(t, p) == [title |-> t, path |-> p, collapsable |-> TRUE]
Bare(p) == [str |-> p]

GuideNode ==
    [title |-> "Guide", path |-> "/guide", collapsable |-> FALSE,
     children |-> <<
        Leaf("Installation", "/guide/installation/"),
        Leaf("Getting Started", "/guide/"),
        Leaf("Validation", "/guide/validation/"),
        Leaf("Plugins", "/guide/plugins/"),
        Leaf("Theming", "/guide/theming/"),
        Leaf("Internationalization", "/guide/internationalization/"),
        Leaf("Contributing", "/guide/contributing/") >>]

\* Variant: the grouping node leaves collapsable unset.
TypesNode_collapsableUnset ==
    [title |-> "Types",
     children |-> <<
        Bare("/guide/inputs/types/button/"),
        Bare("/guide/inputs/types/box/"),
        Bare("/guide/inputs/types/file/"),
        Bare("/guide/inputs/types/group/"),
        Bare("/guide/inputs/types/select/"),
        Bare("/guide/inputs/types/sliders/"),
        Bare("/guide/inputs/types/text/"),
        Bare("/guide/inputs/types/textarea/") >>]

\* Variant: the grouping node spreads an empty list of children.
TypesNode_noChildren ==
    [title |-> "Types", collapsable |-> FALSE, children |-> <<>>]

TypesNode ==
    [title |-> "Types", collapsable |-> FALSE,
     children |-> <<
        Bare("/guide/inputs/types/button/"),
        Bare("/guide/inputs/types/box/"),
        Bare("/guide/inputs/types/file/"),
        Bare("/guide/inputs/types/group/"),
        Bare("/guide/inputs/types/select/"),
        Bare("/guide/inputs/types/sliders/"),
        Bare("/guide/inputs/types/text/"),
        Bare("/guide/inputs/types/textarea/") >>]

InputsNode ==
    [title |-> "Inputs", collapsable |-> FALSE, path |-> "/guide/inputs",
     children |-> <<
        Leaf("Configuration", "/guide/inputs/"),
        Leaf("Custom input types", "/guide/inputs/custom-inputs/"),
        Leaf("Slots", "/guide/inputs/slots/"),
        TypesNode >>]

FormsNode ==
    [title |-> "Forms", collapsable |-> FALSE, path |-> "/guide/forms",
     children |-> <<
        Leaf("Using forms", "/guide/forms/"),
        Leaf("Error handling", "/guide/forms/error-handling/") >>]

sidebar == [k \in {"/guide"} |-> <<GuideNode, InputsNode, FormsNode>>]

(***************************************************************************)
(* config.js, lines 132-153: the plugin list.                              *)
(***************************************************************************)
\* Variant: analytics is registered for production builds only.
plugins_productionOnly(c) ==
    IF c.isProd
    THEN << [name |-> "live", options |-> {}],
            [name |-> "@vuepress/google-analytics", options |-> {<<"ga", "UA-107296601-3">>}],
            [name |-> "seo",
             options |-> {"title", "image", "siteTitle", "description", "author", "tags",
                          "twitterCard", "type", "url", "publishedAt", "modifiedAt"}] >>
    ELSE << [name |-> "live", options |-> {}],
            [name |-> "seo",
             options |-> {"title", "image", "siteTitle", "description", "author", "tags",
                          "twitterCard", "type", "url", "publishedAt", "modifiedAt"}] >>

plugins(c) ==
    << [name |-> "live", options |-> {}],
       [name |-> "@vuepress/google-analytics", options |-> {<<"ga", "UA-107296601-3">>}],
       [name |-> "seo",
        options |-> {"title", "image", "siteTitle", "description", "author", "tags",
                     "twitterCard", "type", "url", "publishedAt", "modifiedAt"}] >>

(***************************************************************************)
(* config.js, lines 4-155: module.exports = ctx => ({...}).                *)
(***************************************************************************)
exports(c) ==
    [title |-> title,
     description |-> description,
     port |-> 8123,
     themeConfig |-> [sidebar |-> sidebar],
     plugins |-> plugins(c),
     dest |-> "public"]

(***************************************************************************)
(* config.js, lines 140-152: the callbacks given to the seo plugin.  Each  *)
(* takes ($page, $site, path).  Reading a property of undefined throws:    *)
(* the field has = FALSE marks a frontmatter (a themeConfig) that is       *)
(* undefined, and a callback that dereferences it yields TypeError.        *)
(***************************************************************************)
seoTitle(p, s, pt) == Str(JsToString(p.title) \o " - Vue Formulate")

image(p, s, pt) == Str("https://vueformulate.com/assets/img/og.jpg")

siteTitle(p, s, pt) == s.title

\* Variant: the page's description is ignored.
seoDescription_alwaysDefault(p, s, pt) ==
    IF ~p.frontmatter.has THEN TypeError
    ELSE Str(description)

\* Variant: the fallback to the site-wide default is missing.
seoDescription_noFallback(p, s, pt) ==
    IF ~p.frontmatter.has THEN TypeError
    ELSE p.frontmatter.description

seoDescription(p, s, pt) ==
    IF ~p.frontmatter.has THEN TypeError
    ELSE Or(p.frontmatter.description, Str(description))

author(p, s, pt) ==
    IF ~s.themeConfig.has THEN TypeError
    ELSE s.themeConfig.author

\* Variant: the tag list is dereferenced ($page.frontmatter.tags.slice()).
tags_dereferenced(p, s, pt) ==
    IF ~p.frontmatter.has THEN TypeError
    ELSE IF p.frontmatter.tags.t \in {"undefined", "null"} THEN TypeError
    ELSE p.frontmatter.tags

tags(p, s, pt) ==
    IF ~p.frontmatter.has THEN TypeError
    ELSE p.frontmatter.tags

twitterCard(p, s, pt) == Str("summary_large_image")

type(p, s, pt) == Str("article")

url(p, s, pt) ==
    IF ~s.themeConfig.has THEN TypeError
    ELSE Str(JsToString(Or(s.themeConfig.domain, Str(""))) \o pt)

publishedAt(p, s, pt) ==
    IF ~p.frontmatter.has THEN TypeError
    ELSE And(p.frontmatter.date, NewDate(p.frontmatter.date))

modifiedAt(p, s, pt) ==
    And(p.lastUpdated, NewDate(p.lastUpdated))

\* The seo plugin evaluates every callback for the page being rendered.
PageMetadata(p, s, pt) ==
    [title |-> seoTitle(p, s, pt),
     image |-> image(p, s, pt),
     siteTitle |-> siteTitle(p, s, pt),
     description |-> seoDescription(p, s, pt),
     author |-> author(p, s, pt),
     tags |-> tags(p, s, pt),
     twitterCard |-> twitterCard(p, s, pt),
     type |-> type(p, s, pt),
     url |-> url(p, s, pt),
     publishedAt |-> publishedAt(p, s, pt),
     modifiedAt |-> modifiedAt(p, s, pt)]

(***************************************************************************)
(* Inputs of the callbacks: page and site contexts the host can hand in.   *)
(***************************************************************************)
DescriptionValues == {Undefined, Null, Str(""), Str("Text inputs"), Str("A custom page description.")}
DateValues == {Undefined, Null, Str(""), Num(0), Num(86400000), Str("1970-01-01"), Str("1970-01-02"), Str("soon")}
TagValues == {Undefined, Arr(<<"vue", "forms">>)}
TitleValues == {Undefined, Str("Installation")}
LastUpdatedValues == {Undefined, Num(0), Num(86400000), Str("1970-01-02")}
AuthorValues == {Undefined, Str("Braid LLC")}
DomainValues == {Undefined, Str("https://vueformulate.com")}
Paths == {"/", "/guide/inputs/"}

NoFrontmatter == [has |-> FALSE, description |-> Undefined, date |-> Undefined, tags |-> Undefined]
Frontmatters ==
    {NoFrontmatter} \cup
    [has : {TRUE}, description : DescriptionValues, date : DateValues, tags : TagValues]

Pages == [title : TitleValues, frontmatter : Frontmatters, lastUpdated : LastUpdatedValues]

NoThemeConfig == [has |-> FALSE, author |-> Undefined, domain |-> Undefined]
ThemeConfigs ==
    {NoThemeConfig} \cup [has : {TRUE}, author : AuthorValues, domain : DomainValues]

Sites == [title : {Str(title)}, themeConfig : ThemeConfigs]

Contexts == {[isProd |-> TRUE], [isProd |-> FALSE]}

NotLoaded == [title |-> "", description |-> "", port |-> 0,
              themeConfig |-> [sidebar |-> [k \in {"/guide"} |-> <<>>]],
              plugins |-> <<>>, dest |-> ""]
NoPage == [title |-> Undefined, frontmatter |-> NoFrontmatter, lastUpdated |-> Undefined]
NoSite == [title |-> Undefined, themeConfig |-> NoThemeConfig]
NoMeta == [k \in {"title", "image", "siteTitle", "description", "author", "tags",
                  "twitterCard", "type", "url", "publishedAt", "modifiedAt"} |-> Undefined]

(***************************************************************************)
(* The host: it calls module.exports once with its context, then renders   *)
(* the page at hand, asking the seo plugin for its metadata.               *)
(***************************************************************************)
LoadConfig ==
    /\ config = NotLoaded
    /\ config' = exports(ctx)
    /\ UNCHANGED <<ctx, page, site, path, meta>>
    /\ UNCHANGED autoVars

RenderPage ==
    /\ config # NotLoaded
    /\ \E i \in 1..Len(config.plugins) : config.plugins[i].name = "seo"
    /\ meta = NoMeta
    /\ meta' = PageMetadata(page, site, path)
    /\ UNCHANGED <<ctx, config, page, site, path>>
    /\ UNCHANGED autoVars

(***************************************************************************)
(* MyFormulateAutocomplete.vue (custom-inputs guide, lines 85-174).        *)
(* A string is the sequence of its characters; context.model is either a   *)
(* string or undefined.                                                    *)
(***************************************************************************)
Text(chars) == [t |-> "string", c |-> chars]
UndefinedModel == [t |-> "undefined", c |-> <<>>]

\* The options of the guide's example (lines 42-47).
options ==
    << [value |-> 1, label |-> <<"J", "o", "n", " ", "D", "o", "e">>],
       [value |-> 2, label |-> <<"J", "a", "n", "e", " ", "R", "o", "e">>],
       [value |-> 3, label |-> <<"B", "o", "b", " ", "F", "o", "e">>],
       [value |-> 4, label |-> <<"B", "e", "n", " ", "C", "h", "o">>] >>

UpperCase == <<"A", "B", "C", "D", "E", "F", "G", "H", "I", "J", "K", "L", "M",
               "N", "O", "P", "Q", "R", "S", "T", "U", "V", "W", "X", "Y", "Z">>
LowerCase == <<"a", "b", "c", "d", "e", "f", "g", "h", "i", "j", "k", "l", "m",
               "n", "o", "p", "q", "r", "s", "t", "u", "v", "w", "x", "y", "z">>

\* String.prototype.toLowerCase
toLowerCase(chars) ==
    [i \in 1..Len(chars) |->
        IF \E k \in 1..26 : UpperCase[k] = chars[i]
        THEN LowerCase[CHOOSE k \in 1..26 : UpperCase[k] = chars[i]]
        ELSE chars[i]]

\* String.prototype.includes
includes(hay, needle) ==
    \E i \in 0..(Len(hay) - Len(needle)) : SubSeq(hay, i + 1, i + Len(needle)) = needle

\* computed filteredOptions (lines 144-153)
filteredOptions(m) ==
    IF m.t = "string" /\ m.c # <<>>
    THEN IF \E k \in 1..Len(options) : options[k].label = m.c
         THEN <<>>
         ELSE SelectSeq(options, LAMBDA o : includes(toLowerCase(o.label), toLowerCase(m.c)))
    ELSE <<>>

\* computed selection (lines 138-143): the option at selectedIndex, or false.
NoSelection == [value |-> 0, label |-> <<>>]
hasSelection(m, idx) == idx >= 0 /\ idx < Len(filteredOptions(m))
\* Variant: selection ignores selectedIndex and takes the first option.
selection_first(m, idx) ==
    IF hasSelection(m, idx) THEN filteredOptions(m)[1] ELSE NoSelection

selection(m, idx) ==
    IF hasSelection(m, idx) THEN filteredOptions(m)[idx + 1] ELSE NoSelection

\* selection.label: the label of the selected option, undefined on false.
selectionLabel(m, idx) ==
    IF hasSelection(m, idx) THEN Text(selection(m, idx).label) ELSE UndefinedModel

\* Variant: the watcher does not reset selectedIndex.
watchModel_noReset(old, new, idx) == idx

\* watch.model (lines 129-133): runs when the value of context.model changed.
watchModel(old, new, idx) == IF new # old THEN 0 ELSE idx

\* Variant: increment stops at the last option instead of wrapping.
increment_noWrap(idx, length) == IF idx + 1 < length THEN idx + 1 ELSE idx

\* methods.increment (lines 156-163)
increment(idx, length) == IF idx + 1 < length THEN idx + 1 ELSE 0

\* methods.decrement (lines 164-171)
decrement(idx, length) == IF idx - 1 >= 0 THEN idx - 1 ELSE length - 1

\* What the user can type or paste into the input.
MaxTyped == 2
Alphabet == {"j", "o", "e", "B"}
Typed ==
    UNION {[1..n -> Alphabet] : n \in 0..MaxTyped}
    \cup {options[k].label : k \in 1..Len(options)}

\* v-model="context.model" (line 92)
Input ==
    \E chars \in Typed :
        /\ model' = Text(chars)
        /\ selectedIndex' = watchModel(model, Text(chars), selectedIndex)
        /\ lastOp' = [op |-> "input", model |-> model, selectedIndex |-> selectedIndex]
        /\ UNCHANGED siteVars

\* @keydown.enter.prevent="context.model = selection.label" (line 95)
KeydownEnter ==
    /\ model' = selectionLabel(model, selectedIndex)
    /\ selectedIndex' = watchModel(model, model', selectedIndex)
    /\ lastOp' = [op |-> "enter", model |-> model, selectedIndex |-> selectedIndex]
    /\ UNCHANGED siteVars

\* @keydown.down.prevent="increment" (line 96)
KeydownDown ==
    /\ selectedIndex' = increment(selectedIndex, Len(filteredOptions(model)))
    /\ lastOp' = [op |-> "down", model |-> model, selectedIndex |-> selectedIndex]
    /\ UNCHANGED model
    /\ UNCHANGED siteVars

\* @keydown.up.prevent="decrement" (line 97)
KeydownUp ==
    /\ selectedIndex' = decrement(selectedIndex, Len(filteredOptions(model)))
    /\ lastOp' = [op |-> "up", model |-> model, selectedIndex |-> selectedIndex]
    /\ UNCHANGED model
    /\ UNCHANGED siteVars

\* @mouseenter="selectedIndex = index" on a rendered <li> (lines 104-109)
Mouseenter ==
    \E index \in 0..(Len(filteredOptions(model)) - 1) :
        /\ selectedIndex' = index
        /\ lastOp' = [op |-> "mouseenter", model |-> model, selectedIndex |-> selectedIndex]
        /\ UNCHANGED model
        /\ UNCHANGED siteVars

\* @click="context.model = selection.label" on a rendered <li> (line 110)
Click ==
    /\ Len(filteredOptions(model)) > 0
    /\ model' = selectionLabel(model, selectedIndex)
    /\ selectedIndex' = watchModel(model, model', selectedIndex)
    /\ lastOp' = [op |-> "click", model |-> model, selectedIndex |-> selectedIndex]
    /\ UNCHANGED siteVars

(***************************************************************************)
(* Specifications.                                                         *)
(***************************************************************************)
InitSiteVars ==
    /\ config = NotLoaded
    /\ meta = NoMeta

InitAutoVars ==
    /\ model = Text(<<>>)
    /\ selectedIndex = 0
    /\ lastOp = [op |-> "created", model |-> Text(<<>>), selectedIndex |-> 0]

\* The site build.
InitSite ==
    /\ ctx \in Contexts
    /\ page \in Pages
    /\ site \in Sites
    /\ path \in Paths
    /\ InitSiteVars
    /\ InitAutoVars

NextSite ==
    \/ LoadConfig
    \/ RenderPage

SpecSite == InitSite /\ [][NextSite]_vars

\* The autocomplete component mounted in a page.
InitAuto ==
    /\ ctx = [isProd |-> TRUE]
    /\ page = NoPage
    /\ site = NoSite
    /\ path = "/guide/inputs/custom-inputs/"
    /\ InitSiteVars
    /\ InitAutoVars

NextAuto ==
    \/ Input
    \/ KeydownEnter
    \/ KeydownDown
    \/ KeydownUp
    \/ Mouseenter
    \/ Click

SpecAuto == InitAuto /\ [][NextAuto]_vars

(***************************************************************************)
(* Helpers for the properties.                                              *)
(***************************************************************************)
Loaded == config # NotLoaded
Rendered == meta # NoMeta

\* The derivations that read page or site data.
Derivations == {"title", "description", "author", "tags", "url", "publishedAt", "modifiedAt"}

Raises(k) == meta[k].t = "TypeError"

childrenOf(n) == IF "children" \in DOMAIN n THEN n.children ELSE <<>>

RECURSIVE AllNodes(_)
AllNodes(nodes) ==
    UNION {{nodes[i]} \cup AllNodes(childrenOf(nodes[i])) : i \in 1..Len(nodes)}

GuideTree == AllNodes(config.themeConfig.sidebar["/guide"])

hasPath(n) == "path" \in DOMAIN n \/ "str" \in DOMAIN n

PluginNames == [i \in 1..Len(config.plugins) |-> config.plugins[i].name]

\* The value holds a date: a timestamp (0 is the epoch) or a parseable string.
HoldsDate(v) ==
    \/ v.t = "number"
    \/ v.t = "Date"
    \/ v.t = "string" /\ DateParse(v.s) >= 0

IsDate(v) == v.t = "Date" /\ v # InvalidDate
Absent(v) == v = Undefined

(***************************************************************************)
(* Properties of the site configuration (SpecSite).                        *)
(***************************************************************************)

C2_DescriptionVerbatim ==
    (Rendered /\ page.frontmatter.has /\ page.frontmatter.description.t = "string")
        => meta.description = page.frontmatter.description

\* C2 (amended): for every page whose frontmatter supplies a non-empty
\* description string, the resolved description is that string verbatim; an
\* empty string resolves to the site-wide default.
C2_NonEmptyDescriptionVerbatim ==
    /\ (Rendered /\ page.frontmatter.has /\ page.frontmatter.description.t = "string"
            /\ page.frontmatter.description.s # "")
        => meta.description = page.frontmatter.description
    /\ (Rendered /\ page.frontmatter.has /\ page.frontmatter.description = Str(""))
        => meta.description = Str(description)

C2_Witness ==
    /\ Rendered
    /\ page.frontmatter.has
    /\ page.frontmatter.description = Str("A custom page description.")
    /\ meta.description = Str("A custom page description.")

\* C3: for every page whose frontmatter supplies no description, the resolved
\* description is the fixed site-wide default, the same constant as the
\* description field of the configuration.
C3_DescriptionDefault ==
    (Rendered /\ page.frontmatter.has /\ page.frontmatter.description \in {Undefined, Null})
        => /\ meta.description = Str(description)
           /\ meta.description = Str(config.description)

C3_Witness ==
    /\ Rendered
    /\ page.frontmatter.has
    /\ page.frontmatter.description = Undefined
    /\ meta.description = Str(config.description)

\* C4: publishedAt returns a date exactly when the frontmatter holds a date
\* and modifiedAt exactly when the page holds a lastUpdated value; in every
\* other case the result is absent, never a zero or another sentinel.
C4_DateOrAbsent ==
    /\ (Rendered /\ page.frontmatter.has) =>
        /\ IsDate(meta.publishedAt) <=> HoldsDate(page.frontmatter.date)
        /\ ~IsDate(meta.publishedAt) => Absent(meta.publishedAt)
    /\ Rendered =>
        /\ IsDate(meta.modifiedAt) <=> HoldsDate(page.lastUpdated)
        /\ ~IsDate(meta.modifiedAt) => Absent(meta.modifiedAt)

\* C5: for every ctx the plugin sequence of the returned configuration is
\* exactly live, @vuepress/google-analytics, seo, in that order.
C5_PluginOrder ==
    Loaded => PluginNames = <<"live", "@vuepress/google-analytics", "seo">>

C5_Witness ==
    /\ Loaded
    /\ ~ctx.isProd
    /\ Len(config.plugins) = 3
    /\ config.plugins[3].name = "seo"

\* C6: every node of the '/guide' sidebar tree, at any depth, that has a
\* non-empty children sequence has collapsable set to true or false.
C6_CollapsableSet ==
    Loaded => \A n \in GuideTree :
        Len(childrenOf(n)) > 0 => ("collapsable" \in DOMAIN n /\ n.collapsable \in BOOLEAN)

C6_Witness ==
    /\ Loaded
    /\ \E n \in GuideTree :
        /\ "title" \in DOMAIN n
        /\ n.title = "Types"
        /\ Len(childrenOf(n)) = 8
        /\ n.collapsable = FALSE
    /\ Cardinality({n \in GuideTree : Len(childrenOf(n)) > 0}) = 4

\* C7: no node of the sidebar tree, at any depth, has both no path and no
\* children.
C7_PathOrChildren ==
    Loaded => \A n \in GuideTree : hasPath(n) \/ Len(childrenOf(n)) > 0

C7_Witness ==
    /\ Loaded
    /\ \E n \in GuideTree :
        /\ ~hasPath(n)
        /\ Len(childrenOf(n)) > 0
        /\ \A i \in 1..Len(childrenOf(n)) : DOMAIN childrenOf(n)[i] = {"str"}
    /\ Cardinality(GuideTree) = 24

(***************************************************************************)
(* Properties of the autocomplete component (SpecAuto).  lastOp records    *)
(* the handler that ran last and the state it ran in.                      *)
(***************************************************************************)
shown == Len(filteredOptions(model))
shownBefore == Len(filteredOptions(lastOp.model))
isLabel(m) == m.t = "string" /\ \E k \in 1..Len(options) : options[k].label = m.c

RECURSIVE incrementTimes(_, _, _)
incrementTimes(k, idx, length) ==
    IF k = 0 THEN idx ELSE incrementTimes(k - 1, increment(idx, length), length)

\* C8: whenever filteredOptions is non-empty, 0 <= selectedIndex <
\* filteredOptions.length, so the selection is one of the filtered options
\* and never false while the dropdown is shown.
C8_SelectedIndexInRange ==
    shown > 0 =>
        /\ 0 <= selectedIndex
        /\ selectedIndex < shown
        /\ selection(model, selectedIndex) # NoSelection
        /\ \E i \in 1..shown : filteredOptions(model)[i] = selection(model, selectedIndex)

C8_Witness ==
    /\ shown = 4
    /\ lastOp.op = "up"
    /\ lastOp.selectedIndex = 0
    /\ selectedIndex = 3

\* C9: when a selection exists, choosing it by Enter or by click writes the
\* label of the option at selectedIndex to context.model; afterwards the
\* model is the label of an option, filteredOptions is empty and
\* selectedIndex is 0.
C9_ChooseWritesLabel ==
    (lastOp.op \in {"enter", "click"} /\ hasSelection(lastOp.model, lastOp.selectedIndex))
        => /\ model = Text(filteredOptions(lastOp.model)[lastOp.selectedIndex + 1].label)
           /\ isLabel(model)
           /\ filteredOptions(model) = <<>>
           /\ selectedIndex = 0

C9_Witness ==
    /\ lastOp.op = "click"
    /\ lastOp.model = Text(<<"o", "e">>)
    /\ lastOp.selectedIndex = 2
    /\ model = Text(<<"B", "o", "b", " ", "F", "o", "e">>)
    /\ selectedIndex = 0

\* C10: for a filtered list of length n > 0 and selectedIndex in 0..n-1,
\* increment maps i to (i+1) mod n and decrement maps i to (i-1) mod n, each
\* undoes the other, n increments return to the start, and neither changes
\* context.model or filteredOptions.
C10_CyclicInverse ==
    /\ (lastOp.op = "down" /\ shownBefore > 0 /\ lastOp.selectedIndex \in 0..(shownBefore - 1))
        => /\ selectedIndex = (lastOp.selectedIndex + 1) % shownBefore
           /\ model = lastOp.model
           /\ filteredOptions(model) = filteredOptions(lastOp.model)
    /\ (lastOp.op = "up" /\ shownBefore > 0 /\ lastOp.selectedIndex \in 0..(shownBefore - 1))
        => /\ selectedIndex = (lastOp.selectedIndex + shownBefore - 1) % shownBefore
           /\ model = lastOp.model
           /\ filteredOptions(model) = filteredOptions(lastOp.model)
    /\ (shown > 0 /\ selectedIndex \in 0..(shown - 1))
        => /\ decrement(increment(selectedIndex, shown), shown) = selectedIndex
           /\ increment(decrement(selectedIndex, shown), shown) = selectedIndex
           /\ incrementTimes(shown, selectedIndex, shown) = selectedIndex

C10_Witness ==
    /\ lastOp.op = "down"
    /\ shownBefore = 3
    /\ lastOp.selectedIndex = 2
    /\ selectedIndex = 0

====
